---- MODULE Spec2Model ----
(***************************************************************************)
(* CronMaster scheduler/executor: the job and execution tables, the        *)
(* JobWorkerService singleton (jobWorker.js), the job controller           *)
(* (jobController.js) and the process lifecycle of server.js.              *)
(*                                                                         *)
(* Every await of the JavaScript code is a step boundary: the database     *)
(* operation an await waits for is one atomic step, and the synchronous    *)
(* code that follows it up to the next database operation belongs to the   *)
(* step of that next operation (or is a step of its own when it touches    *)
(* scheduledJobs).  Instants are abstracted: a next_execution value is     *)
(* named by the cron expression it was computed from.                      *)
(* node-cron is outside the repository: task.destroy() is taken to stop    *)
(* the task, and a task fires whenever its schedule matches, whether or    *)
(* not an earlier callback of it has returned.                             *)
(***************************************************************************)
EXTENDS Integers, FiniteSets, Sequences, TLC

\* ---- bounds of the model ------------------------------------------------
MaxJobs == 2
MaxExecs == 2
MaxRuns == 2
MaxApi == 2
MaxEvents == 3
MaxReconEvents == 5
MaxUsers == 2

JobIds == 1..MaxJobs
ExecIds == 1..MaxExecs
RunIds == 1..MaxRuns
ApiIds == 1..MaxApi
Users == 1..MaxUsers
TaskIds == 1..MaxJobs

\* Cron expressions the API is called with (both pass validation).
Crons == {"* * * * *", "*/5 * * * *"}

\* Timezones the API is called with (any string passes validation); the
\* last is one no timezone database knows.
Timezones == {"UTC", "Asia/Kolkata", "Mars/Olympus"}
KnownTimezones == {"UTC", "Asia/Kolkata"}

\* null is the empty tuple, an instant a non-empty tuple.
NULL == <<>>
NoTask == [id |-> 0, cron |-> "", timezone |-> ""]
NoJob == [id |-> 0, status |-> "none", cron |-> "", timezone |-> ""]

FinalStatuses == {"success", "failed", "timeout", "cancelled"}

VARIABLES
  jobs,          \* table cron_jobs: id -> row (status "none": no such row)
  execs,         \* table job_executions: id -> row
  proc,          \* the node process: up, closing, stopped, dead
  epoch,         \* which incarnation of the process is running
  isRunning,     \* JobWorkerService.isRunning
  maintenance,   \* the maintenance cron tasks are registered
  startPc,       \* position of start(): idle, loading, done
  startJobs,     \* the rows loadAndScheduleJobs read
  tasks,         \* node-cron tasks that are alive: handle -> captured job
  scheduledJobs, \* JobWorkerService.scheduledJobs: job id -> handle (0: no key)
  runs,          \* executeJob invocations in flight
  api,           \* controller requests in flight
  reload,        \* the reloadJobs invocation in flight
  events,        \* external events so far: requests, firings, faults, signals
  limit,         \* how many external events the behaviour may have
  recon,         \* history of the reconciliation (start or reloadJobs): clean or
                 \* mixed while one is in flight; started or reloaded once one has
                 \* completed clean and no mutating step has run since; else idle
  calc           \* the argument and the result of one call of a helper function

vars == <<jobs, execs, proc, epoch, isRunning, maintenance, startPc, startJobs,
          tasks, scheduledJobs, runs, api, reload, events, limit, recon,
          calc>>

dbVars == <<jobs, execs>>
procVars == <<proc, epoch, isRunning, maintenance, startPc, startJobs>>
schedVars == <<tasks, scheduledJobs>>

\* ---- rows and snapshots -------------------------------------------------
NoRow == [status |-> "none", cron |-> "", next_execution |-> NULL,
          success_count |-> 0, failure_count |-> 0, last_execution |-> NULL,
          user_id |-> 0, timezone |-> ""]

NoExec == [status |-> "none", job_id |-> 0, triggered_by |-> "", epoch |-> 0,
           response_code |-> NULL, error_message |-> NULL]

\* paused is history: toggleJobStatus paused the job while this invocation ran.
\* http is what axios did: none yet, a response, the timeout, another error.
IdleRun == [pc |-> "idle", job |-> NoJob, exec |-> 0, isSuccess |-> FALSE, api |-> 0,
            paused |-> FALSE, http |-> "none"]

IdleApi == [op |-> "none", pc |-> "idle", job |-> 0, snap |-> NoJob,
            patch |-> [status |-> "keep", cron |-> "keep", timezone |-> "keep"],
            user |-> 0]

IdleReload == [pc |-> "idle", active |-> {}, toAdd |-> {}, snap |-> NoJob]

\* What a findFirst / findUnique / findMany of cron_jobs hands to the code.
Snap(j) == [id |-> j, status |-> jobs[j].status, cron |-> jobs[j].cron,
            timezone |-> jobs[j].timezone]

\* cronParser.parseExpression(cronExpression, {tz: timezone}) does not throw
ParserAccepts(cronExpression, timezone) == timezone \in KnownTimezones

\* getFallbackNextExecution: an instant guessed from the text of the
\* expression and the server's clock, whatever the timezone
getFallbackNextExecution(cronExpression) == <<cronExpression, "fallback">>

\* getNextExecutionTime: the next instant of the expression in the timezone,
\* or the fallback's guess when the parser throws; never null.
getNextExecutionTime(cronExpression, timezone) ==
  IF ParserAccepts(cronExpression, timezone)
    THEN <<cronExpression, timezone>>
    ELSE getFallbackNextExecution(cronExpression)

Min(S) == CHOOSE x \in S : \A y \in S : x <= y

Alive == proc \in {"up", "closing", "stopped"}

ActiveIds == {j \in JobIds : jobs[j].status = "active"}
ScheduledIds == {j \in JobIds : scheduledJobs[j] # 0}

\* ---- JobWorkerService: scheduleJob / removeJob --------------------------
\* w is the pair [tasks, scheduledJobs]; cron.schedule returns a fresh handle.
\* a scheduleJob that leaves the task it replaces alive
scheduleJobMut(w, job) ==
  LET destroyed == w.tasks
      t == Min({h \in TaskIds : destroyed[h] = NoTask})
  IN  [tasks |-> [destroyed EXCEPT ![t] = [id |-> job.id, cron |-> job.cron,
                                           timezone |-> job.timezone]],
       scheduledJobs |-> [w.scheduledJobs EXCEPT ![job.id] = t]]

scheduleJob(w, job) ==
  LET old == w.scheduledJobs[job.id]
      destroyed == IF old # 0 THEN [w.tasks EXCEPT ![old] = NoTask] ELSE w.tasks
      t == Min({h \in TaskIds : destroyed[h] = NoTask})
  IN  [tasks |-> [destroyed EXCEPT ![t] = [id |-> job.id, cron |-> job.cron,
                                           timezone |-> job.timezone]],
       scheduledJobs |-> [w.scheduledJobs EXCEPT ![job.id] = t]]

removeJob(w, jobId) ==
  LET old == w.scheduledJobs[jobId]
  IN  IF old # 0
        THEN [tasks |-> [w.tasks EXCEPT ![old] = NoTask],
              scheduledJobs |-> [w.scheduledJobs EXCEPT ![jobId] = 0]]
        ELSE w

Sched == [tasks |-> tasks, scheduledJobs |-> scheduledJobs]

SetSched(w) == tasks' = w.tasks /\ scheduledJobs' = w.scheduledJobs

RECURSIVE ScheduleAll(_, _)
ScheduleAll(w, S) ==
  IF S = {} THEN w
  ELSE LET job == CHOOSE s \in S : \A o \in S : s.id <= o.id
       IN  ScheduleAll(scheduleJob(w, job), S \ {job})

RECURSIVE RemoveAll(_, _)
RemoveAll(w, S) ==
  IF S = {} THEN w
  ELSE LET j == Min(S) IN RemoveAll(removeJob(w, j), S \ {j})

\* a load that also arms paused jobs
LoadFilterMut(j) == jobs[j].status # "deleted" /\ jobs[j].next_execution # NULL

\* The rows loadAndScheduleJobs selects.
LoadFilter(j) == jobs[j].status = "active" /\ jobs[j].next_execution # NULL

\* The condition under which addJob arms what it read.
AddJobArms(snap) == snap.id # 0 /\ snap.status = "active"

\* what recon becomes when the reconciliation in flight completes
Completed(how) == IF recon = "clean" THEN how ELSE "idle"

\* start() or reloadJobs is between its read and its last scheduleJob.
Reconciling == startPc = "loading" \/ reload.pc # "idle"

\* ---- Init ----------------------------------------------------------------
\* The state after the modules are loaded: an empty database, the
\* JobWorkerService constructor's empty map.
InitState ==
  /\ jobs = [j \in JobIds |-> NoRow]
  /\ execs = [e \in ExecIds |-> NoExec]
  /\ proc = "up"
  /\ epoch = 0
  /\ isRunning = FALSE
  /\ maintenance = FALSE
  /\ startPc = "idle"
  /\ startJobs = {}
  /\ tasks = [t \in TaskIds |-> NoTask]
  /\ scheduledJobs = [j \in JobIds |-> 0]
  /\ runs = [r \in RunIds |-> IdleRun]
  /\ api = [a \in ApiIds |-> IdleApi]
  /\ reload = IdleReload
  /\ events = 0
  /\ recon = "idle"

\* no helper call is being followed
NoCalc == [fn |-> "none"]

Init == InitState /\ limit = MaxEvents /\ calc = NoCalc

\* An external event: a request, a firing, a fault, a signal, a maintenance tick.
Event == events < limit /\ events' = events + 1 /\ UNCHANGED <<limit, calc>>
NoEvent == UNCHANGED <<events, limit, calc>>

\* ---- process lifecycle (server.js, JobWorkerService.start / stop) -------
\* startServer calls start() in the tick of app.listen: isRunning := true and
\* the findMany of loadAndScheduleJobs come before any request is served.
StartBegin ==
  /\ proc = "up" /\ startPc = "idle" /\ ~isRunning
  /\ isRunning' = TRUE
  /\ startPc' = "loading"
  /\ startJobs' = {Snap(j) : j \in {i \in JobIds : LoadFilter(i)}}
  /\ recon' = "clean"
  /\ NoEvent
  /\ UNCHANGED <<dbVars, proc, epoch, maintenance, schedVars, runs, api, reload>>

\* the scheduleJob loop of loadAndScheduleJobs, then startMaintenanceTasks.
StartFinish ==
  /\ Alive /\ startPc = "loading"
  /\ SetSched(ScheduleAll(Sched, startJobs))
  /\ startPc' = "done"
  /\ startJobs' = {}
  /\ maintenance' = TRUE
  /\ recon' = Completed("started")
  /\ NoEvent
  /\ UNCHANGED <<dbVars, proc, epoch, isRunning, runs, api, reload>>

\* SIGTERM / SIGINT once the handlers are installed: server.close().
Signal ==
  /\ proc = "up" /\ startPc = "done"
  /\ proc' = "closing"
  /\ Event
  /\ UNCHANGED <<dbVars, epoch, isRunning, maintenance, startPc, startJobs,
                 schedVars, runs, api, reload, recon>>

\* the server.close callback, once no request is open: jobWorker.stop().
Stop ==
  /\ proc = "closing" /\ isRunning
  /\ \A a \in ApiIds : api[a].pc = "idle"
  /\ SetSched(RemoveAll(Sched, ScheduledIds))
  /\ isRunning' = FALSE
  /\ proc' = "stopped"
  /\ recon' = IF recon \in {"started", "reloaded"} THEN "idle" ELSE recon
  /\ NoEvent
  /\ UNCHANGED <<dbVars, epoch, maintenance, startPc, startJobs, runs, api, reload>>

\* What the death of the process leaves: the database, nothing else.
ProcessGone ==
  /\ proc' = "dead"
  /\ isRunning' = FALSE
  /\ maintenance' = FALSE
  /\ startPc' = "idle"
  /\ startJobs' = {}
  /\ tasks' = [t \in TaskIds |-> NoTask]
  /\ scheduledJobs' = [j \in JobIds |-> 0]
  /\ runs' = [r \in RunIds |-> IdleRun]
  /\ api' = [a \in ApiIds |-> IdleApi]
  /\ reload' = IdleReload
  /\ recon' = "idle"
  /\ UNCHANGED <<dbVars, epoch>>

\* process.exit(0) at the end of gracefulShutdown.
Exit == proc = "stopped" /\ ProcessGone /\ NoEvent

\* the process is killed, or the forced-shutdown timer exits it.
Crash == proc \in {"up", "closing"} /\ ProcessGone /\ Event

\* the supervisor starts the server again: a new process, the same database.
Restart ==
  /\ proc = "dead"
  /\ proc' = "up"
  /\ epoch' = epoch + 1
  /\ NoEvent
  /\ UNCHANGED <<dbVars, isRunning, maintenance, startPc, startJobs, schedVars,
                 runs, api, reload, recon>>

\* ---- JobWorkerService.executeJob ----------------------------------------
FreeRun == Min({r \in RunIds : runs[r].pc = "idle"})

\* rows that exist or are about to be created
RowsUsed ==
  Cardinality({e \in ExecIds : execs[e].status # "none"})
  + Cardinality({r \in RunIds : runs[r].pc = "create"})

CanStartRun == (\E r \in RunIds : runs[r].pc = "idle") /\ RowsUsed < MaxExecs

NewExecId == Min({e \in ExecIds : execs[e].status = "none"})

\* the callback of a live task: executeJob(job) with the job scheduleJob captured.
Fire(t) ==
  /\ Alive /\ tasks[t] # NoTask /\ CanStartRun
  /\ runs' = [runs EXCEPT ![FreeRun] =
                [IdleRun EXCEPT !.pc = "create",
                                !.job = [NoJob EXCEPT !.id = tasks[t].id,
                                                      !.cron = tasks[t].cron,
                                                      !.timezone = tasks[t].timezone]]]
  /\ Event
  /\ UNCHANGED <<dbVars, procVars, schedVars, api, reload, recon>>

\* the invocation ends: a manual trigger's request ends with it.
EndRun(r) ==
  /\ runs' = [runs EXCEPT ![r] = IdleRun]
  /\ api' = IF runs[r].api # 0 THEN [api EXCEPT ![runs[r].api] = IdleApi] ELSE api

\* the row prisma.jobExecution.create writes
NewExecRow(jobId) ==
  [status |-> "running", job_id |-> jobId, triggered_by |-> "cron", epoch |-> epoch,
   response_code |-> NULL, error_message |-> NULL]

\* prisma.jobExecution.create; a throw goes to the catch block with execution = null.
ExecCreate(r) ==
  /\ Alive /\ runs[r].pc = "create"
  /\ \/ /\ execs' = [execs EXCEPT ![NewExecId] = NewExecRow(runs[r].job.id)]
        /\ runs' = [runs EXCEPT ![r].pc = "updateExec", ![r].exec = NewExecId]
        /\ NoEvent
     \/ /\ Event
        /\ runs' = [runs EXCEPT ![r].pc = "catchJob"]
        /\ UNCHANGED execs
  /\ UNCHANGED <<jobs, procVars, schedVars, api, reload, recon>>

\* the status the try block records for a response
ResponseStatus(isSuccess) == IF isSuccess THEN "success" ELSE "failed"

\* response.status of a 2xx and of a non-2xx response
StatusCode(isSuccess) == IF isSuccess THEN 200 ELSE 500

\* what the try block's prisma.jobExecution.update leaves of the row
ResponseRow(row, isSuccess) ==
  [row EXCEPT !.status = ResponseStatus(isSuccess),
              !.response_code = <<StatusCode(isSuccess)>>]

\* how axios can throw: the 30 s timeout, or a network error
AxiosErrors == {"timeout", "error"}

\* axios(requestOptions) returns a response (2xx or not) and
\* prisma.jobExecution.update records it; or axios throws; or the update throws.
ExecUpdate(r) ==
  /\ Alive /\ runs[r].pc = "updateExec"
  /\ \/ /\ \E ok \in BOOLEAN :
             /\ execs' = [execs EXCEPT ![runs[r].exec] = ResponseRow(@, ok)]
             /\ runs' = [runs EXCEPT ![r].pc = "updateJob", ![r].isSuccess = ok,
                                     ![r].http = "response"]
        /\ NoEvent
     \/ /\ \E why \in AxiosErrors :
             runs' = [runs EXCEPT ![r].pc = "catchExec", ![r].http = why]
        /\ NoEvent
        /\ UNCHANGED execs
     \/ /\ Event
        /\ \E ok \in BOOLEAN :
             runs' = [runs EXCEPT ![r].pc = "catchExec", ![r].isSuccess = ok,
                                 ![r].http = "response"]
        /\ UNCHANGED execs
  /\ UNCHANGED <<jobs, procVars, schedVars, api, reload, recon>>

\* statistics that count consecutive outcomes: a failure resets success_count
StatsRowMut(row, job, ok) ==
  [row EXCEPT !.last_execution = <<"now">>,
              !.next_execution = getNextExecutionTime(job.cron, job.timezone),
              !.success_count = IF ok THEN @ + 1 ELSE 0,
              !.failure_count = IF ok THEN 0 ELSE @ + 1]

\* the job row executeJob writes: counters, last_execution, next_execution
\* from the cron expression of the job object it was called with.
StatsRow(row, job, ok) ==
  [row EXCEPT !.last_execution = <<"now">>,
              !.next_execution = getNextExecutionTime(job.cron, job.timezone),
              !.success_count = IF ok THEN @ + 1 ELSE @,
              !.failure_count = IF ok THEN @ ELSE @ + 1]

\* prisma.cronJob.update with the statistics, in the try block
JobUpdate(r) ==
  /\ Alive /\ runs[r].pc = "updateJob"
  /\ \/ /\ jobs' = [jobs EXCEPT ![runs[r].job.id] =
                      StatsRow(@, runs[r].job, runs[r].isSuccess)]
        /\ EndRun(r)
        /\ NoEvent
     \/ /\ Event
        /\ runs' = [runs EXCEPT ![r].pc = "catchExec"]
        /\ UNCHANGED <<jobs, api>>
  /\ UNCHANGED <<execs, procVars, schedVars, reload, recon>>

\* executeJob rejects: a write of its catch block threw.  A manual trigger's
\* controller catches the rejection.  The callback of a task hands it to
\* node-cron: either node-cron handles it, or it is an unhandledRejection and
\* the handler of server.js, once installed, runs gracefulShutdown.
Rejects(r) ==
  IF runs[r].api = 0 /\ proc = "up" /\ startPc = "done"
    THEN proc' \in {"up", "closing"}
    ELSE proc' = proc

\* what the catch block's prisma.jobExecution.update leaves of the row:
\* error.response is undefined for everything that can throw here
CatchRow(row) ==
  [row EXCEPT !.status = "failed", !.error_message = <<"error.message">>,
              !.response_code = NULL]

\* catch: prisma.jobExecution.update({status: 'failed', error_message});
\* a throw here rejects executeJob.
CatchExecUpdate(r) ==
  /\ Alive /\ runs[r].pc = "catchExec"
  /\ \/ /\ execs' = [execs EXCEPT ![runs[r].exec] = CatchRow(@)]
        /\ runs' = [runs EXCEPT ![r].pc = "catchJob"]
        /\ NoEvent
        /\ UNCHANGED <<api, proc>>
     \/ /\ Event
        /\ EndRun(r)
        /\ Rejects(r)
        /\ UNCHANGED execs
  /\ UNCHANGED <<jobs, epoch, isRunning, maintenance, startPc, startJobs, schedVars,
                 reload, recon>>

\* catch: prisma.cronJob.update({failure_count: increment, ...})
CatchJobUpdate(r) ==
  /\ Alive /\ runs[r].pc = "catchJob"
  /\ \/ /\ jobs' = [jobs EXCEPT ![runs[r].job.id] = StatsRow(@, runs[r].job, FALSE)]
        /\ NoEvent
        /\ UNCHANGED proc
     \/ /\ Event
        /\ Rejects(r)
        /\ UNCHANGED jobs
  /\ EndRun(r)
  /\ UNCHANGED <<execs, epoch, isRunning, maintenance, startPc, startJobs, schedVars,
                 reload, recon>>

\* ---- jobController.js -------------------------------------------------------
FreeApi == Min({a \in ApiIds : api[a].pc = "idle"})

\* the server accepts a request
CanAccept == proc = "up" /\ startPc # "idle" /\ \E a \in ApiIds : api[a].pc = "idle"

\* the router's requireOwnership('cronJob'): the row exists and is the caller's
requireOwnership(userId, j) == jobs[j].status # "none" /\ jobs[j].user_id = userId

\* findFirst({id, user_id, status: {not: 'deleted'}}) finds a row
Found(userId, j) == jobs[j].status \in {"active", "paused"} /\ jobs[j].user_id = userId

\* a request that passes neither check only by its status
AuthorizedMut(userId, j) == jobs[j].status \in {"active", "paused"}

\* a request of userId on job id j reaches the controller's work
Authorized(userId, j) == requireOwnership(userId, j) /\ Found(userId, j)

\* the bodies of updateJob that change status, cron expression or timezone,
\* the timezone being one of Z
PatchesOf(Z) == [status : {"keep", "active", "paused"}, cron : {"keep"} \cup Crons,
                 timezone : {"keep"} \cup Z]

Patches == PatchesOf(Timezones)

\* a step of a mutating request, seen by a reconciliation in flight
Touch == recon' = IF Reconciling THEN "mixed" ELSE "idle"

\* the row prisma.cronJob.create writes (status defaults to active)
NewJobRow(userId, cronExpression, timezone) ==
  [status |-> "active", cron |-> cronExpression,
   next_execution |-> getNextExecutionTime(cronExpression, timezone),
   success_count |-> 0, failure_count |-> 0, last_execution |-> NULL,
   user_id |-> userId, timezone |-> timezone]

\* createJob up to prisma.cronJob.create; jobWorker.addJob(job.id) follows.
CreateJob(userId, cronExpression, timezone) ==
  /\ CanAccept
  /\ \E j \in JobIds : jobs[j].status = "none"
  /\ LET j == Min({i \in JobIds : jobs[i].status = "none"})
     IN  /\ jobs' = [jobs EXCEPT ![j] = NewJobRow(userId, cronExpression, timezone)]
         /\ api' = [api EXCEPT ![FreeApi] =
                      [IdleApi EXCEPT !.op = "createJob", !.pc = "addRead", !.job = j,
                                      !.user = userId]]
  /\ Touch /\ Event
  /\ UNCHANGED <<execs, procVars, schedVars, runs, reload>>

\* addJob: prisma.cronJob.findUnique
AddJobRead(a) ==
  /\ Alive /\ api[a].pc = "addRead"
  /\ api' = [api EXCEPT ![a].pc = "addSched", ![a].snap = Snap(api[a].job)]
  /\ Touch /\ NoEvent
  /\ UNCHANGED <<dbVars, procVars, schedVars, runs, reload>>

\* addJob: if (job && job.status === 'active') scheduleJob(job)
AddJobSchedule(a) ==
  /\ Alive /\ api[a].pc = "addSched"
  /\ SetSched(IF AddJobArms(api[a].snap) THEN scheduleJob(Sched, api[a].snap) ELSE Sched)
  /\ api' = [api EXCEPT ![a] = IdleApi]
  /\ Touch /\ NoEvent
  /\ UNCHANGED <<dbVars, procVars, runs, reload>>

\* jobWorker.removeJob(jobId) after the controller's update
RemoveJobCall(a) ==
  /\ Alive /\ api[a].pc = "remove"
  /\ SetSched(removeJob(Sched, api[a].job))
  /\ api' = [api EXCEPT ![a] = IdleApi]
  /\ Touch /\ NoEvent
  /\ UNCHANGED <<dbVars, procVars, runs, reload>>

\* updateJob: the findFirst that finds the row
UpdateJobRead(userId, j, patch) ==
  /\ CanAccept /\ Authorized(userId, j)
  /\ api' = [api EXCEPT ![FreeApi] =
               [op |-> "updateJob", pc |-> "update", job |-> j, snap |-> Snap(j),
                patch |-> patch, user |-> userId]]
  /\ Touch /\ Event
  /\ UNCHANGED <<dbVars, procVars, schedVars, runs, reload>>

\* the row updateJob's prisma.cronJob.update leaves
UpdatedRow(row, patch, existingJob) ==
  [row EXCEPT !.status = IF patch.status # "keep" THEN patch.status ELSE @,
              !.timezone = IF patch.timezone # "keep" THEN patch.timezone ELSE @,
              !.cron = IF patch.cron # "keep" THEN patch.cron ELSE @,
              !.next_execution =
                 IF patch.cron # "keep"
                   THEN getNextExecutionTime(patch.cron,
                          IF patch.timezone # "keep" THEN patch.timezone
                          ELSE existingJob.timezone)
                   ELSE @]

\* where a controller goes after its update: addJob or removeJob
AfterUpdate(status) == IF status = "active" THEN "addRead" ELSE "remove"

UpdateJobWrite(a) ==
  /\ Alive /\ api[a].pc = "update"
  /\ LET row == UpdatedRow(jobs[api[a].job], api[a].patch, api[a].snap)
     IN  /\ jobs' = [jobs EXCEPT ![api[a].job] = row]
         /\ api' = [api EXCEPT ![a].pc = AfterUpdate(row.status)]
  /\ Touch /\ NoEvent
  /\ UNCHANGED <<execs, procVars, schedVars, runs, reload>>

\* deleteJob: the findFirst that finds the row
DeleteJobRead(userId, j) ==
  /\ CanAccept /\ Authorized(userId, j)
  /\ api' = [api EXCEPT ![FreeApi] =
               [IdleApi EXCEPT !.op = "deleteJob", !.pc = "delete", !.job = j,
                               !.snap = Snap(j), !.user = userId]]
  /\ Touch /\ Event
  /\ UNCHANGED <<dbVars, procVars, schedVars, runs, reload>>

\* the row deleteJob's update leaves: data: {status: 'deleted', updated_at}
DeletedRow(row) == [row EXCEPT !.status = "deleted"]

DeleteJobWrite(a) ==
  /\ Alive /\ api[a].pc = "delete"
  /\ jobs' = [jobs EXCEPT ![api[a].job] = DeletedRow(@)]
  /\ api' = [api EXCEPT ![a].pc = "remove"]
  /\ Touch /\ NoEvent
  /\ UNCHANGED <<execs, procVars, schedVars, runs, reload>>

\* toggleJobStatus: the findFirst that finds the row
ToggleRead(userId, j) ==
  /\ CanAccept /\ Authorized(userId, j)
  /\ api' = [api EXCEPT ![FreeApi] =
               [IdleApi EXCEPT !.op = "toggleJobStatus", !.pc = "toggle", !.job = j,
                               !.snap = Snap(j), !.user = userId]]
  /\ Touch /\ Event
  /\ UNCHANGED <<dbVars, procVars, schedVars, runs, reload>>

\* the row toggleJobStatus's update leaves, existing being what findFirst read
ToggledRow(row, existing) ==
  IF existing.status = "active"
    THEN [row EXCEPT !.status = "paused"]
    ELSE [row EXCEPT !.status = "active",
                     !.next_execution = getNextExecutionTime(existing.cron,
                                                             existing.timezone)]

ToggleWrite(a) ==
  /\ Alive /\ api[a].pc = "toggle"
  /\ LET row == ToggledRow(jobs[api[a].job], api[a].snap)
     IN  /\ jobs' = [jobs EXCEPT ![api[a].job] = row]
         /\ api' = [api EXCEPT ![a].pc = AfterUpdate(row.status)]
         /\ runs' = [r \in RunIds |->
                      IF runs[r].job.id = api[a].job /\ row.status = "paused"
                        THEN [runs[r] EXCEPT !.paused = TRUE] ELSE runs[r]]
  /\ Touch /\ NoEvent
  /\ UNCHANGED <<execs, procVars, schedVars, reload>>

\* triggerJob (controller): the findFirst that finds the row
TriggerCheck(userId, j) ==
  /\ CanAccept /\ Authorized(userId, j)
  /\ api' = [api EXCEPT ![FreeApi] =
               [IdleApi EXCEPT !.op = "triggerJob", !.pc = "trigger", !.job = j,
                               !.user = userId]]
  /\ Event
  /\ UNCHANGED <<dbVars, procVars, schedVars, runs, reload, recon>>

\* a triggerJob that also arms the job it runs
TriggerStartMut(a) ==
  /\ Alive /\ api[a].pc = "trigger" /\ CanStartRun
  /\ runs' = [runs EXCEPT ![FreeRun] =
                [IdleRun EXCEPT !.pc = "create", !.job = Snap(api[a].job), !.api = a]]
  /\ api' = [api EXCEPT ![a].pc = "await"]
  /\ SetSched(scheduleJob(Sched, Snap(api[a].job)))
  /\ NoEvent
  /\ UNCHANGED <<dbVars, procVars, reload, recon>>

\* jobWorker.triggerJob: findUnique, then executeJob(job); the request awaits it.
TriggerStart(a) ==
  /\ Alive /\ api[a].pc = "trigger" /\ CanStartRun
  /\ runs' = [runs EXCEPT ![FreeRun] =
                [IdleRun EXCEPT !.pc = "create", !.job = Snap(api[a].job), !.api = a]]
  /\ api' = [api EXCEPT ![a].pc = "await"]
  /\ NoEvent
  /\ UNCHANGED <<dbVars, procVars, schedVars, reload, recon>>

\* a request on job id j that requireOwnership or the controller's findFirst
\* rejects (AuthorizationError / NotFoundError): nothing is written.
RejectRequest(userId, j) ==
  /\ CanAccept /\ ~Authorized(userId, j)
  /\ Event
  /\ UNCHANGED <<dbVars, procVars, schedVars, runs, api, reload, recon>>

\* ---- the controller's reads: the ids of the rows they return ----------------
\* getJobs: where {user_id, status: query.status or {not: 'deleted'}}
getJobs(userId, status) ==
  {j \in JobIds : /\ jobs[j].user_id = userId
                  /\ IF status = "any" THEN jobs[j].status \in {"active", "paused"}
                      ELSE jobs[j].status = status}

\* getJobById: the findFirst's row, or NotFoundError (no row)
getJobById(userId, j) == IF Authorized(userId, j) THEN {j} ELSE {}

\* getJobLogs: the job's execution rows, or NotFoundError (no row)
getJobLogs(userId, j) ==
  IF Authorized(userId, j)
    THEN {e \in ExecIds : execs[e].job_id = j /\ execs[e].status \notin {"none", "pruned"}}
    ELSE {}

\* ---- maintenance tasks ----------------------------------------------------
\* a mutating request is open
Mutating == \E a \in ApiIds : api[a].pc # "idle" /\ api[a].op # "triggerJob"

\* reloadJobs: findMany({status: 'active'})
ReloadRead ==
  /\ Alive /\ maintenance /\ reload.pc = "idle"
  /\ reload' = [IdleReload EXCEPT !.pc = "diff", !.active = ActiveIds]
  /\ recon' = IF Mutating THEN "mixed" ELSE "clean"
  /\ Event
  /\ UNCHANGED <<dbVars, procVars, schedVars, runs, api>>

\* reloadJobs: the keys of scheduledJobs, and the removeJob loop
ReloadDiff ==
  /\ Alive /\ reload.pc = "diff"
  /\ SetSched(RemoveAll(Sched, ScheduledIds \ reload.active))
  /\ LET toAdd == reload.active \ ScheduledIds
     IN  /\ reload' = IF toAdd = {} THEN IdleReload
                      ELSE [reload EXCEPT !.pc = "addRead", !.toAdd = toAdd]
         /\ recon' = IF toAdd = {} THEN Completed("reloaded") ELSE recon
  /\ NoEvent
  /\ UNCHANGED <<dbVars, procVars, runs, api>>

\* reloadJobs: addJob(jobId) of the next missing id, its findUnique
ReloadAddRead ==
  /\ Alive /\ reload.pc = "addRead"
  /\ reload' = [reload EXCEPT !.pc = "addSched", !.snap = Snap(Min(reload.toAdd))]
  /\ NoEvent
  /\ UNCHANGED <<dbVars, procVars, schedVars, runs, api, recon>>

\* reloadJobs: that addJob's scheduleJob, then the next id or the end
ReloadAddSchedule ==
  /\ Alive /\ reload.pc = "addSched"
  /\ SetSched(IF AddJobArms(reload.snap) THEN scheduleJob(Sched, reload.snap) ELSE Sched)
  /\ LET rest == reload.toAdd \ {reload.snap.id}
     IN  /\ reload' = IF rest = {} THEN IdleReload
                      ELSE [reload EXCEPT !.pc = "addRead", !.toAdd = rest,
                                          !.snap = NoJob]
         /\ recon' = IF rest = {} THEN Completed("reloaded") ELSE recon
  /\ NoEvent
  /\ UNCHANGED <<dbVars, procVars, runs, api>>

\* rows no invocation in flight still writes to
Settled(e) == execs[e].status \notin {"none", "pruned"}
              /\ \A r \in RunIds : runs[r].exec # e

\* cleanupOldExecutions: deleteMany({executed_at: {lt: cutoff}}); the rows
\* older than the cutoff are the first k by executed_at.
CleanupOldExecutions(k) ==
  /\ Alive /\ maintenance
  /\ \E e \in 1..k : Settled(e)
  /\ \A e \in 1..k : Settled(e) \/ execs[e].status = "pruned"
  /\ execs' = [e \in ExecIds |->
                 IF e <= k THEN [execs[e] EXCEPT !.status = "pruned"] ELSE execs[e]]
  /\ Event
  /\ UNCHANGED <<jobs, procVars, schedVars, runs, api, reload, recon>>

\* ---- the system -------------------------------------------------------------
Lifecycle == StartBegin \/ StartFinish \/ Signal \/ Stop \/ Exit \/ Crash \/ Restart

Executions ==
  \/ \E t \in TaskIds : Fire(t)
  \/ \E r \in RunIds :
       \/ ExecCreate(r) \/ ExecUpdate(r) \/ JobUpdate(r)
       \/ CatchExecUpdate(r) \/ CatchJobUpdate(r)

\* the mutating requests of the users in U, with timezones in Z and
\* updateJob bodies in P
MutationsBy(U, Z, P) ==
  \/ \E u \in U, c \in Crons, z \in Z : CreateJob(u, c, z)
  \/ \E u \in U, j \in JobIds :
       \/ \E p \in P : UpdateJobRead(u, j, p)
       \/ DeleteJobRead(u, j) \/ ToggleRead(u, j)
  \/ \E a \in ApiIds :
       \/ AddJobRead(a) \/ AddJobSchedule(a) \/ RemoveJobCall(a)
       \/ UpdateJobWrite(a) \/ DeleteJobWrite(a) \/ ToggleWrite(a)

\* manual triggers by the users in U
TriggersBy(U) ==
  \/ \E u \in U, j \in JobIds : TriggerCheck(u, j)
  \/ \E a \in ApiIds : TriggerStart(a)

\* rejected requests of the users in U
RejectionsBy(U) == \E u \in U, j \in JobIds : RejectRequest(u, j)

\* one user, whose requests leave the timezone at its default
OneUser == {1}
DefaultTimezone == {"UTC"}

Mutations == MutationsBy(OneUser, DefaultTimezone, PatchesOf({}))

Triggers == TriggersBy(OneUser)

Rejections == RejectionsBy(OneUser)

Reload == ReloadRead \/ ReloadDiff \/ ReloadAddRead \/ ReloadAddSchedule

Cleanup == \E k \in ExecIds : CleanupOldExecutions(k)

Next == Lifecycle \/ Executions \/ Mutations \/ Triggers \/ Rejections \/ Reload \/ Cleanup

Spec == Init /\ [][Next]_vars

\* An invocation of executeJob that is waiting for a promise goes on once the
\* promise settles: the database answers or throws, axios returns or gives
\* up after its timeout of 30 s.
ExecutionsProgress ==
  \A r \in RunIds :
    /\ WF_vars(ExecCreate(r)) /\ WF_vars(ExecUpdate(r)) /\ WF_vars(JobUpdate(r))
    /\ WF_vars(CatchExecUpdate(r)) /\ WF_vars(CatchJobUpdate(r))

SpecLive == Init /\ [][Next]_vars /\ ExecutionsProgress

\* The scheduler's map under longer histories of requests: no invocations.
InitRecon == InitState /\ limit = MaxReconEvents /\ calc = NoCalc

NextRecon == Lifecycle \/ Mutations \/ Reload

SpecRecon == InitRecon /\ [][NextRecon]_vars

\* Several users: who may read and change which job.
NextOwner ==
  \/ Lifecycle \/ Executions
  \/ MutationsBy(Users, DefaultTimezone, PatchesOf({}))
  \/ TriggersBy(Users) \/ RejectionsBy(Users)
  \/ Reload \/ Cleanup

SpecOwner == Init /\ [][NextOwner]_vars

\* Requests that name a timezone: what the controller stores.
NextTimezone == Lifecycle \/ MutationsBy(OneUser, Timezones, Patches)

SpecTimezone == Init /\ [][NextTimezone]_vars

\* ---- the stored response body (JobWorkerService.executeJob) -----------------
\* A string is a sequence of runs: count copies of a unit of characters.
Run(unit, count) == [unit |-> unit, count |-> count]

Repeat(ch, n) == IF n = 0 THEN <<>> ELSE <<Run(<<ch>>, n)>>

RECURSIVE Length(_)
Length(s) ==
  IF s = <<>> THEN 0 ELSE Len(Head(s).unit) * Head(s).count + Length(Tail(s))

\* the character at position i (from 1) of s
RECURSIVE CharAt(_, _)
CharAt(s, i) ==
  LET run == Head(s)
      n == Len(run.unit) * run.count
  IN IF i <= n THEN run.unit[((i - 1) % Len(run.unit)) + 1]
               ELSE CharAt(Tail(s), i - n)

\* bytes of one character in UTF-8, the encoding of the database
Utf8Bytes(ch) == IF ch = "e-acute" THEN 2 ELSE 1

RECURSIVE UnitBytes(_)
UnitBytes(unit) ==
  IF unit = <<>> THEN 0 ELSE Utf8Bytes(Head(unit)) + UnitBytes(Tail(unit))

RECURSIVE ByteLength(_)
ByteLength(s) ==
  IF s = <<>> THEN 0
  ELSE UnitBytes(Head(s).unit) * Head(s).count + ByteLength(Tail(s))

\* JSON.stringify of one character of a string: a line feed becomes \n
Escape(ch) == IF ch = "LF" THEN <<"backslash", "n">> ELSE <<ch>>

RECURSIVE EscapeUnit(_)
EscapeUnit(unit) ==
  IF unit = <<>> THEN <<>> ELSE Escape(Head(unit)) \o EscapeUnit(Tail(unit))

RECURSIVE EscapeAll(_)
EscapeAll(s) ==
  IF s = <<>> THEN <<>>
  ELSE <<Run(EscapeUnit(Head(s).unit), Head(s).count)>> \o EscapeAll(Tail(s))

\* JSON.stringify of a string: the escaped characters between double quotes
JSONstringify(data) ==
  <<Run(<<"quote">>, 1)>> \o EscapeAll(data) \o <<Run(<<"quote">>, 1)>>

\* String.prototype.substring(0, end): the first end UTF-16 code units
RECURSIVE substring(_, _)
substring(s, end) ==
  IF s = <<>> \/ end = 0 THEN <<>>
  ELSE LET run == Head(s)
           u == Len(run.unit)
           n == u * run.count
       IN IF n <= end THEN <<run>> \o substring(Tail(s), end - n)
          ELSE (IF end \div u = 0 THEN <<>> ELSE <<Run(run.unit, end \div u)>>)
               \o (IF end % u = 0 THEN <<>>
                   ELSE <<Run(SubSeq(run.unit, 1, end % u), 1)>>)

\* the second argument of substring in executeJob
SubstringEnd == 10000

\* response_body_limit_bytes
ResponseBodyLimit == 10240

\* response_body as executeJob stores it
response_body(data) == substring(JSONstringify(data), SubstringEnd)

\* Response bodies: up to MaxBodySteps * BodyStep copies of one character,
\* and the lengths around the cut.
BodyStep == 400
MaxBodySteps == 30
BodyChars == {"a", "e-acute", "LF"}
BodyLengths ==
  {k * BodyStep : k \in 0..MaxBodySteps}
    \cup {SubstringEnd - 3, SubstringEnd - 2, SubstringEnd - 1, SubstringEnd + 1}

InitBody ==
  /\ InitState /\ limit = 0
  /\ calc \in {[fn |-> "response_body", data |-> Repeat(ch, n), stored |-> NULL, read |-> FALSE] :
                 ch \in BodyChars, n \in BodyLengths}

\* jobExecution.update writes the truncated body
StoreResponseBody ==
  /\ calc.fn = "response_body" /\ calc.stored = NULL
  /\ calc' = [calc EXCEPT !.stored = <<response_body(calc.data)>>]
  /\ UNCHANGED <<dbVars, procVars, schedVars, runs, api, reload, events, limit, recon>>

\* getJobLogs selects response_body
ReadResponseBody ==
  /\ calc.fn = "response_body" /\ calc.stored # NULL /\ ~calc.read
  /\ calc' = [calc EXCEPT !.read = TRUE]
  /\ UNCHANGED <<dbVars, procVars, schedVars, runs, api, reload, events, limit, recon>>

NextBody == StoreResponseBody \/ ReadResponseBody

SpecBody == InitBody /\ [][NextBody]_vars
\* ---- getNextExecutionTime on instants (cronUtils) ---------------------------
\* Instants are minutes since a midnight of the server's clock (UTC).
Hour == 60
Day == 1440

\* fields of an expression: '*', '*/k', a number
Star == <<"*">>
Step(k) == <<"*/", k>>
Num(m) == <<"n", m>>

\* the expressions minute hour * * * of the four forms
MaxInstant == 125
Steps == {5, 7}
Minutes == {0, 30}
Hours == {0, 2}
Expressions ==
  {[minute |-> Star, hour |-> Star]}
    \cup {[minute |-> Step(k), hour |-> Star] : k \in Steps}
    \cup {[minute |-> Num(m), hour |-> Star] : m \in Minutes}
    \cup {[minute |-> Num(m), hour |-> Num(h)] : m \in Minutes, h \in Hours}

Matches(f, v) ==
  \/ f = Star
  \/ f[1] = "*/" /\ v % f[2] = 0
  \/ f[1] = "n" /\ v = f[2]

\* minutes a wall clock of the timezone is ahead of UTC; a name that is no
\* timezone has no clock of its own: the server's
Offset(timezone) == IF timezone = "Asia/Kolkata" THEN 330 ELSE 0

\* instant n satisfies E at its wall-clock decomposition in the timezone
Satisfies(E, n, timezone) ==
  LET wall == n + Offset(timezone)
  IN /\ Matches(E.minute, wall % Hour)
     /\ Matches(E.hour, (wall \div Hour) % (Day \div Hour))

\* cron-parser: interval.next() with currentDate t and tz timezone
ParserNext(E, timezone, t) ==
  Min({n \in (t + 1)..(t + 2 * Day) : Satisfies(E, n, timezone)})

\* getFallbackNextExecution at instant t
FallbackAt(E, t) ==
  LET currentMinute == t % Hour
  IN IF E.minute = Star /\ E.hour = Star THEN t + 1
     ELSE IF E.minute[1] = "*/" /\ E.hour = Star
       THEN LET interval == E.minute[2]
                nextMinute == ((currentMinute + 1 + interval - 1) \div interval) * interval
            IN (t - currentMinute) + nextMinute
     ELSE IF E.minute = Num(0) THEN (t - currentMinute) + Hour
     ELSE t + 5

\* getNextExecutionTime of the cron-parser version at instant t
NextExecutionAt(E, timezone, t) ==
  IF timezone \in KnownTimezones THEN ParserNext(E, timezone, t)
                                 ELSE FallbackAt(E, t)

\* getNextExecutionTime of the version without a parser at instant t
SimpleNextAt(E, t) ==
  IF E.minute = Star /\ E.hour = Star THEN t + 1
  ELSE IF E.minute[1] = "*/" THEN t + E.minute[2]
  ELSE IF E.minute = Num(0) /\ E.hour = Star THEN (t - (t % Hour)) + Hour
  ELSE IF E.minute = Num(0) /\ E.hour = Num(0) THEN (t - (t % Day)) + Day
  ELSE t + 1

\* the two versions of utils/cronUtils.js
CronUtils == {"parser", "simple"}

InitNext ==
  /\ InitState /\ limit = 0
  /\ calc \in {[fn |-> "getNextExecutionTime", utils |-> u, cron |-> E,
                timezone |-> z, now |-> t, next |-> NULL, read |-> FALSE] :
                 u \in CronUtils, E \in Expressions, z \in Timezones,
                 t \in 0..MaxInstant}

\* a caller stores getNextExecutionTime(cron_expression, timezone)
ComputeNext ==
  /\ calc.fn = "getNextExecutionTime" /\ calc.next = NULL
  /\ calc' = [calc EXCEPT !.next =
                IF calc.utils = "parser"
                  THEN <<NextExecutionAt(calc.cron, calc.timezone, calc.now)>>
                  ELSE <<SimpleNextAt(calc.cron, calc.now)>>]
  /\ UNCHANGED <<dbVars, procVars, schedVars, runs, api, reload, events, limit, recon>>

\* getJobById selects next_execution
ReadNext ==
  /\ calc.fn = "getNextExecutionTime" /\ calc.next # NULL /\ ~calc.read
  /\ calc' = [calc EXCEPT !.read = TRUE]
  /\ UNCHANGED <<dbVars, procVars, schedVars, runs, api, reload, events, limit, recon>>

NextNext == ComputeNext \/ ReadNext

SpecNext == InitNext /\ [][NextNext]_vars

\* ---- the accepted cron expressions (validation.js, cronUtils) ---------------
\* The minute field of an expression whose other fields are '*', as a
\* sequence of characters.
MaxFieldLen == 5
Digits == {"0", "3", "5"}
FieldChars == {"*", "/", "-", ","} \cup Digits

RECURSIVE StringsOf(_)
StringsOf(n) ==
  IF n = 0 THEN {<<>>}
  ELSE {Append(p, c) : p \in StringsOf(n - 1), c \in FieldChars} \cup StringsOf(n - 1)

Fields == StringsOf(MaxFieldLen) \ {<<>>}

MinuteMin == 0
MinuteMax == 59

DigitValue(c) == IF c = "0" THEN 0 ELSE IF c = "3" THEN 3 ELSE 5

\* String.prototype.includes
includes(part, c) == \E i \in DOMAIN part : part[i] = c

\* String.prototype.split(c)
RECURSIVE split(_, _)
split(part, c) ==
  IF ~includes(part, c) THEN <<part>>
  ELSE LET i == Min({k \in DOMAIN part : part[k] = c})
       IN <<SubSeq(part, 1, i - 1)>> \o split(SubSeq(part, i + 1, Len(part)), c)

\* the digits a string starts with
RECURSIVE LeadingDigits(_)
LeadingDigits(value) ==
  IF value = <<>> \/ Head(value) \notin Digits THEN <<>>
  ELSE <<Head(value)>> \o LeadingDigits(Tail(value))

RECURSIVE DecimalValue(_)
DecimalValue(digits) ==
  IF digits = <<>> THEN 0
  ELSE DecimalValue(SubSeq(digits, 1, Len(digits) - 1)) * 10
         + DigitValue(digits[Len(digits)])

\* parseInt: an optional sign and the leading digits; <<n>> for the number n
\* and NULL for NaN
parseInt(value) ==
  LET negative == value # <<>> /\ Head(value) = "-"
      digits == LeadingDigits(IF negative THEN Tail(value) ELSE value)
  IN IF digits = <<>> THEN NULL
     ELSE IF negative THEN <<0 - DecimalValue(digits)>>
                      ELSE <<DecimalValue(digits)>>

\* the strings whose parseInt(...).toString() is the string itself: the
\* decimal digits of a number without a leading zero (a minus sign before
\* them for a number below zero)
RoundTrips(value) ==
  LET negative == value # <<>> /\ Head(value) = "-"
      digits == IF negative THEN Tail(value) ELSE value
  IN /\ digits # <<>>
     /\ \A i \in DOMAIN digits : digits[i] \in Digits
     /\ Len(digits) > 1 => Head(digits) # "0"
     /\ negative => DecimalValue(digits) # 0

isValidNumber(value, min, max) ==
  /\ parseInt(value) # NULL
  /\ parseInt(value)[1] >= min /\ parseInt(value)[1] <= max
  /\ RoundTrips(value)

\* validateCronPart: the branches in the order of the code
validateCronPart(part, min, max) ==
  IF part = <<"*">> THEN TRUE
  ELSE IF includes(part, "/")
    THEN LET range == split(part, "/")[1]
             step == split(part, "/")[2]
         IN /\ (range = <<"*">> \/ isValidNumber(range, min, max))
            /\ isValidNumber(step, 1, max)
  ELSE IF includes(part, "-")
    THEN LET start == split(part, "-")[1]
             end == split(part, "-")[2]
         IN /\ isValidNumber(start, min, max) /\ isValidNumber(end, min, max)
            /\ parseInt(start)[1] < parseInt(end)[1]
  ELSE IF includes(part, ",")
    THEN \A i \in DOMAIN split(part, ",") :
           isValidNumber(split(part, ",")[i], min, max)
  ELSE isValidNumber(part, min, max)

\* ([0-9]|1[0-9]|2[0-9]|3[0-9]|4[0-9]|5[0-9]) of the Joi pattern
PatternMinute(value) ==
  \/ Len(value) = 1 /\ value[1] \in Digits
  \/ Len(value) = 2 /\ value[1] \in Digits \ {"0"} /\ value[2] \in Digits

\* the minute group of the Joi pattern: '*', a number, '*/' and a number
PatternField(part) ==
  \/ part = <<"*">>
  \/ PatternMinute(part)
  \/ /\ Len(part) >= 3 /\ part[1] = "*" /\ part[2] = "/"
     /\ PatternMinute(SubSeq(part, 3, Len(part)))

\* createJob: the Joi schema, then validateCronExpression
createAccepts(part) ==
  PatternField(part) /\ validateCronPart(part, MinuteMin, MinuteMax)

\* The grammar of accepted expressions, for one field.
GrammarNumber(value, min, max) ==
  /\ value # <<>> /\ \A i \in DOMAIN value : value[i] \in Digits
  /\ Len(value) > 1 => Head(value) # "0"
  /\ DecimalValue(value) >= min /\ DecimalValue(value) <= max

GrammarRange(value, min, max) ==
  /\ Len(split(value, "-")) = 2
  /\ GrammarNumber(split(value, "-")[1], min, max)
  /\ GrammarNumber(split(value, "-")[2], min, max)
  /\ DecimalValue(split(value, "-")[1]) < DecimalValue(split(value, "-")[2])

GrammarStep(value, min, max) ==
  /\ Len(split(value, "/")) = 2
  /\ split(value, "/")[1] = <<"*">> \/ GrammarRange(split(value, "/")[1], min, max)
  /\ GrammarNumber(split(value, "/")[2], 1, max)

GrammarItem(value, min, max) ==
  \/ value = <<"*">>
  \/ GrammarNumber(value, min, max)
  \/ GrammarRange(value, min, max)
  \/ GrammarStep(value, min, max)

InGrammar(part, min, max) ==
  \A i \in DOMAIN split(part, ",") : GrammarItem(split(part, ",")[i], min, max)

InitValidate ==
  /\ InitState /\ limit = 0
  /\ calc \in {[fn |-> "validate", part |-> p, pattern |-> NULL, cronUtils |-> NULL] :
                 p \in Fields}

\* validateCronJobCreation: the Joi pattern on the expression
ValidatePattern ==
  /\ calc.fn = "validate" /\ calc.pattern = NULL
  /\ calc' = [calc EXCEPT !.pattern = <<PatternField(calc.part)>>]
  /\ UNCHANGED <<dbVars, procVars, schedVars, runs, api, reload, events, limit, recon>>

\* validateCronExpression, called when the schema has accepted the body
ValidateExpression ==
  /\ calc.fn = "validate" /\ calc.pattern = <<TRUE>> /\ calc.cronUtils = NULL
  /\ calc' = [calc EXCEPT !.cronUtils =
                <<validateCronPart(calc.part, MinuteMin, MinuteMax)>>]
  /\ UNCHANGED <<dbVars, procVars, schedVars, runs, api, reload, events, limit, recon>>

NextValidate == ValidatePattern \/ ValidateExpression

SpecValidate == InitValidate /\ [][NextValidate]_vars

\* ---- properties ---------------------------------------------------------------
InFlight(r) == runs[r].pc # "idle"

\* the execution rows of job j in a final status
FinalRows(j) == {e \in ExecIds : execs[e].job_id = j /\ execs[e].status \in FinalStatuses}

\* a deleteJob request for j is still open
Deleting(j) == \E a \in ApiIds : api[a].op = "deleteJob" /\ api[a].job = j

\* C1: in every reachable state an active job has a non-null next_execution
\* and a paused or deleted job has next_execution = null.
C1_StatusNextCoupling ==
  \A j \in JobIds :
    /\ jobs[j].status = "active" => jobs[j].next_execution # NULL
    /\ jobs[j].status \in {"paused", "deleted"} => jobs[j].next_execution = NULL

\* C2: no two invocations started by the scheduler for the same job are in
\* flight together with both of their execution rows in status running.
C2_CronFiringsSerialized ==
  \A r1, r2 \in RunIds :
    ( /\ r1 # r2
      /\ runs[r1].api = 0 /\ runs[r2].api = 0
      /\ runs[r1].exec # 0 /\ runs[r2].exec # 0
      /\ execs[runs[r1].exec].status = "running"
      /\ execs[runs[r2].exec].status = "running" )
    => runs[r1].job.id # runs[r2].job.id

\* C3: finalizing is one atomic step: no state has an execution row in a final
\* status whose invocation has not yet written the job row.
C3_FinalizeAtomic ==
  \A r \in RunIds :
    (InFlight(r) /\ runs[r].exec # 0) => execs[runs[r].exec].status \notin FinalStatuses

\* C4: whenever no execution of job j is in flight, success_count +
\* failure_count is the number of j's execution rows in a final status.
C4_CountersMatchRows ==
  \A j \in JobIds :
    (\A r \in RunIds : InFlight(r) => runs[r].job.id # j)
    => jobs[j].success_count + jobs[j].failure_count = Cardinality(FinalRows(j))

\* an invocation of job j writes the job row and ends
Finalizes(r, j) ==
  /\ runs[r].job.id = j
  /\ runs[r].pc \in {"updateJob", "catchJob"} /\ runs'[r].pc = "idle"
  /\ jobs'[j] # jobs[j]

\* a toggleJobStatus request for j is still open
Toggling(j) == \E a \in ApiIds : api[a].op = "toggleJobStatus" /\ api[a].job = j

\* C5: when an execution finalizes whose job toggleJobStatus paused while it
\* was in flight, the counters go up by one, next_execution is null afterwards
\* and, the toggle having returned, the job is not in scheduledJobs.
C5_PauseWhileFiring ==
  [][\A r \in RunIds : \A j \in JobIds :
       (Finalizes(r, j) /\ runs[r].paused /\ jobs[j].status = "paused")
       => /\ jobs'[j].success_count + jobs'[j].failure_count
               = jobs[j].success_count + jobs[j].failure_count + 1
          /\ jobs'[j].next_execution = NULL
          /\ ~Toggling(j) => scheduledJobs'[j] = 0]_vars

\* C6: once deleteJob has completed for a job no invocation of executeJob, the
\* only creator of execution rows, is started for it; and no step of deleteJob
\* changes an execution row.
C6_NoRowAfterDelete ==
  [][/\ \A r \in RunIds :
          (~InFlight(r) /\ InFlight(r)')
          => ~(jobs[runs'[r].job.id].status = "deleted" /\ ~Deleting(runs'[r].job.id))
     /\ (\E a \in ApiIds : api[a].op = "deleteJob" /\ api'[a] # api[a])
          => execs' = execs]_vars

C8_ShutdownDrains ==
  proc = "stopped"
  => \A e \in ExecIds : execs[e].status = "running" => execs[e].epoch # epoch

\* C9: once stop() has returned scheduledJobs stays empty and no invocation
\* is started.
C9_StopStaysStopped ==
  [][proc = "stopped"
     => /\ ScheduledIds' = {}
        /\ \A r \in RunIds : ~InFlight(r) => ~InFlight(r)']_vars

\* C10: after start() completes no execution row left in status running by an
\* earlier process is still running.
C10_CrashRecovery ==
  startPc = "done"
  => \A e \in ExecIds : execs[e].status = "running" => execs[e].epoch = epoch

\* a step of a manual trigger: of its request, or of the invocation it started
TriggerStep ==
  /\ proc' # "dead"
  /\ \/ \E a \in ApiIds : api'[a].op = "triggerJob" /\ api'[a] # api[a]
     \/ \E r \in RunIds : runs[r].api # 0 /\ runs'[r] # runs[r]

\* C11: the execution row of an invocation started by a manual trigger has
\* triggered_by = manual, and the row of one started by a task has
\* triggered_by = cron.
C11_ManualTriggerRow ==
  \A r \in RunIds :
    runs[r].exec # 0
    => execs[runs[r].exec].triggered_by = (IF runs[r].api # 0 THEN "manual" ELSE "cron")

\* C12: no step of a manual trigger changes scheduledJobs or a task: the key
\* set and the handle of every job id stay as they were.
C12_TriggerKeepsArming ==
  [][TriggerStep => UNCHANGED <<scheduledJobs, tasks>>]_vars

\* a manual trigger's invocation has created its row while its job is armed
C12_Witness ==
  \E r \in RunIds :
    /\ runs[r].api # 0 /\ runs[r].exec # 0
    /\ scheduledJobs[runs[r].job.id] # 0

\* the execution row of invocation r has been given a final status
Recorded(r) == runs[r].exec # 0 /\ execs[runs[r].exec].status \in FinalStatuses

\* C13: an invocation that received a non-2xx response is recorded as failed,
\* and one whose 30 s budget elapsed before any response is recorded as
\* timeout with response_code null.
C13_OutcomeClassification ==
  \A r \in RunIds :
    Recorded(r)
    => /\ (runs[r].http = "response" /\ ~runs[r].isSuccess)
            => execs[runs[r].exec].status = "failed"
       /\ runs[r].http = "timeout"
            => /\ execs[runs[r].exec].status = "timeout"
               /\ execs[runs[r].exec].response_code = NULL

\* C14: a recorded execution row has status success if and only if the
\* response received for its invocation was a 2xx, whatever later step of
\* executeJob failed.
C14_SuccessIff2xx ==
  \A r \in RunIds :
    Recorded(r)
    => (execs[runs[r].exec].status = "success"
          <=> (runs[r].http = "response" /\ runs[r].isSuccess))

\* C15: a row in a final status has an error_message if and only if its
\* status is failed or timeout.
C15_ErrorMessageIffFailed ==
  \A e \in ExecIds :
    execs[e].status \in FinalStatuses
    => (execs[e].error_message # NULL <=> execs[e].status \in {"failed", "timeout"})

\* the status filters getJobs can be called with
StatusQueries == {"any", "active", "paused", "deleted"}

\* C16: a user who does not own job j reads nothing of it (getJobs,
\* getJobById, getJobLogs), and no updateJob, deleteJob, toggleJobStatus or
\* triggerJob of that user on j's id gets past its checks: every such request
\* at work, and every invocation a trigger started, is the owner's.
C16_OwnershipScoping ==
  /\ \A u \in Users, j \in JobIds :
       (jobs[j].status # "none" /\ jobs[j].user_id # u)
       => /\ \A q \in StatusQueries : j \notin getJobs(u, q)
          /\ getJobById(u, j) = {}
          /\ getJobLogs(u, j) = {}
  /\ \A a \in ApiIds :
       api[a].pc # "idle" => jobs[api[a].job].user_id = api[a].user
  /\ \A r \in RunIds :
       runs[r].api # 0 => jobs[runs[r].job.id].user_id = api[runs[r].api].user

\* two users own a job each, and one of the jobs has an execution row its
\* owner can read and the other user cannot
C16_Witness ==
  \E u, v \in Users, j, k \in JobIds, e \in ExecIds :
    /\ u # v
    /\ jobs[j].user_id = v /\ jobs[k].user_id = u
    /\ e \in getJobLogs(v, j)
    /\ k \in getJobs(u, "any")

\* request a is an updateJob writing the job row in this step
UpdateWrites(a) ==
  /\ api[a].op = "updateJob" /\ api[a].pc = "update"
  /\ api'[a].pc \in {"addRead", "remove"}

\* C17: the row updateJob writes has next_execution null when the patch sets
\* status paused; otherwise, recomputed from the row's new expression and
\* timezone when the patch changes either of them or sets status active.
C17_UpdateRecomputes ==
  [][\A a \in ApiIds :
       UpdateWrites(a)
       => LET j == api[a].job
              patch == api[a].patch
          IN  IF patch.status = "paused"
                THEN jobs'[j].next_execution = NULL
                ELSE (\/ jobs'[j].cron # jobs[j].cron
                      \/ jobs'[j].timezone # jobs[j].timezone
                      \/ patch.status = "active")
                     => jobs'[j].next_execution
                          = getNextExecutionTime(jobs'[j].cron, jobs'[j].timezone)]_vars

\* request a is a toggleJobStatus that found its job active and returns in this step
PauseReturns(a) ==
  /\ api[a].op = "toggleJobStatus" /\ api[a].snap.status = "active"
  /\ api[a].pc = "remove" /\ api'[a].pc = "idle"
  /\ proc' # "dead"

\* C18: when toggleJobStatus on an active job returns, the job is paused, its
\* next_execution is null and its id is not a key of scheduledJobs.
C18_ToggleToPaused ==
  [][\A a \in ApiIds :
       PauseReturns(a)
       => /\ jobs'[api[a].job].status = "paused"
          /\ jobs'[api[a].job].next_execution = NULL
          /\ scheduledJobs'[api[a].job] = 0]_vars

\* job row j is created in this step
Created(j) == jobs[j].status = "none" /\ jobs'[j].status # "none"

\* C19: createJob writes a job row only when the next-fire computation can
\* evaluate the expression in the timezone; it never stores the fallback's guess.
C19_NoFallbackSchedule ==
  [][\A j \in JobIds :
       Created(j)
       => /\ ParserAccepts(jobs'[j].cron, jobs'[j].timezone)
          /\ jobs'[j].next_execution # getFallbackNextExecution(jobs'[j].cron)]_vars

\* a step of invocation r fails: axios throws, or a database write of
\* executeJob throws (in the try block or in the catch block)
Fails(r) ==
  /\ proc' # "dead"
  /\ runs[r].pc # "idle" /\ runs'[r] # runs[r]
  /\ \/ events' = events + 1
     \/ runs[r].pc = "updateExec" /\ runs'[r].pc = "catchExec"

DeleteWrites(a) ==
  api[a].op = "deleteJob" /\ api[a].pc = "delete" /\ api'[a].pc = "remove"

\* C21: deleteJob keeps the row and leaves it with status deleted and
\* next_execution null; a deleteJob on a job that is already deleted is
\* rejected before it writes anything.
C21_SoftDeleteIdempotent ==
  [][/\ \A a \in ApiIds :
          DeleteWrites(a)
          => /\ jobs'[api[a].job].status = "deleted"
             /\ jobs'[api[a].job].next_execution = NULL
     /\ \A u \in Users, j \in JobIds :
          jobs[j].status = "deleted" => ~Authorized(u, j)]_vars

\* C22: no step lowers the success_count or the failure_count of a job.
C22_CountersMonotone ==
  [][\A j \in JobIds :
       /\ jobs'[j].success_count >= jobs[j].success_count
       /\ jobs'[j].failure_count >= jobs[j].failure_count]_vars

\* a job that has counted a success and a failure
C22_Witness ==
  \E j \in JobIds : jobs[j].success_count > 0 /\ jobs[j].failure_count > 0

\* the stored value is the first characters of the serialized response
IsPrefix(stored, serialized) ==
  /\ Length(stored) <= Length(serialized)
  /\ \A i \in 1..Length(stored) : CharAt(stored, i) = CharAt(serialized, i)

C24_NextFireExactMinimal ==
  (calc.fn = "getNextExecutionTime" /\ calc.next # NULL)
  => LET n == calc.next[1]
     IN /\ Satisfies(calc.cron, n, calc.timezone)
        /\ n > calc.now
        /\ \A i \in (calc.now + 1)..(n - 1) : ~Satisfies(calc.cron, i, calc.timezone)

\* C25: the Joi pattern, validateCronExpression and so job creation accept a
\* field exactly when it is in the grammar: '*', an in-range integer, a range
\* a-b with a < b, a step */n or a-b/n, or a comma-separated list of those.
C25_GrammarAcceptance ==
  (calc.fn = "validate" /\ calc.pattern # NULL)
  => /\ calc.pattern[1] <=> InGrammar(calc.part, MinuteMin, MinuteMax)
     /\ validateCronPart(calc.part, MinuteMin, MinuteMax)
          <=> InGrammar(calc.part, MinuteMin, MinuteMax)
     /\ createAccepts(calc.part) <=> InGrammar(calc.part, MinuteMin, MinuteMax)

\* request a's addJob returns in this step
AddJobReturns(a) ==
  api[a].pc = "addSched" /\ api'[a].pc = "idle" /\ proc' # "dead"

\* the live tasks of job j
TasksOf(w, j) == {t \in TaskIds : w[t].id = j}

C27_FinalizeUsesCurrentCron ==
  [][\A r \in RunIds : \A j \in JobIds :
       (Finalizes(r, j) /\ jobs'[j].status = "active")
       => jobs'[j].next_execution
            = getNextExecutionTime(jobs'[j].cron, jobs'[j].timezone)]_vars

\* C28: an execution row in status running reaches a final status, unless
\* the process that created it stops running.
C28_RunningRowsFinalize ==
  \A e \in ExecIds :
    (execs[e].status = "running")
      ~> \/ execs[e].status \in FinalStatuses
         \/ proc # "up" \/ epoch # execs[e].epoch

\* no createJob, updateJob, toggleJobStatus, deleteJob, reloadJobs or start()
\* is in flight
ControlQuiet ==
  /\ \A a \in ApiIds : api[a].pc = "idle"
  /\ reload.pc = "idle" /\ startPc # "loading"

\* C29: when no control operation is in flight no key of scheduledJobs is the
\* id of a paused or deleted job.
C29_QuiescentNoStaleTask ==
  ControlQuiet
  => \A j \in ScheduledIds : jobs[j].status \notin {"paused", "deleted"}

\* C30: no step takes a job out of status deleted.
C30_DeletionTerminal ==
  [][\A j \in JobIds :
       jobs[j].status = "deleted" => jobs'[j].status = "deleted"]_vars
====
